---- MODULE Spec2Model ----
(***************************************************************************)
(* RabbitMQ examples (src/RabbitMQ/examples/python): the BasicConsumer     *)
(* receive / process / acknowledge loop with its signal-driven shutdown,   *)
(* the broker queue it consumes from, and the Basic and Topic producers.   *)
(*                                                                         *)
(* Library behaviour the model relies on:                                  *)
(*  - logging.Logger.makeRecord raises KeyError when the `extra` dict      *)
(*    holds a key that is already a LogRecord attribute ("name",           *)
(*    "message", ...); the call is skipped when the level is disabled.     *)
(*  - exit(0) raises SystemExit, which `except Exception` does not catch.  *)
(*  - an exception escaping on_message_callback escapes                    *)
(*    channel.start_consuming().                                           *)
(*  - the broker requeues, with redelivered = true, every delivery that    *)
(*    is unacknowledged when its channel goes away.                        *)
(*  - message_id is an AMQP short string: basic_publish raises when the    *)
(*    value cannot be encoded (it is not a str).                           *)
(* RoutingKeyMatcher is modelled from section 4.2 of the specification.    *)
(* Broker and network faults are inputs of the actions (\E ... \in         *)
(* BOOLEAN): a broker operation either completes or raises.                *)
(***************************************************************************)
EXTENDS Integers, Sequences, FiniteSets, TLC

\* ---- bounds -------------------------------------------------------------
MaxMsgs == 2      \* envelopes published to the basic queue
MaxRuns == 3      \* invocations of basic_consumer.main()

\* ---- program constants --------------------------------------------------
PrefetchCount == 1    \* CONSUMER['prefetch_count'] default
FaultEvery == 5       \* process_message: message_count % 5 == 0

\* Payloads, by what handle_message / process_message do with them:
\*   plain     JSON object, handler succeeds
\*   backup    {"type": "system", "message": "... backup ..."}
\*   badtype   JSON object whose "type" is not a string (handler raises)
\*   badjson   UTF-8 text that is not JSON            (json.JSONDecodeError)
\*   badutf8   bytes that are not UTF-8               (UnicodeDecodeError)
\*   nonobject JSON that is not an object, e.g. [1]   (no .get attribute)
Bodies == {"plain", "backup", "badtype", "badjson", "badutf8", "nonobject"}

NoDelivery == [tag |-> 0, id |-> 0, body |-> "none", redelivered |-> FALSE]

VARIABLES
    logInfo,        \* LOGGING['level'] enables INFO records
    queue,          \* broker: ready envelopes of python_basic_queue
    unacked,        \* broker: deliveries outstanding on the consumer's channel
    inbox,          \* client: deliveries received, callback not yet invoked
    prefetch,       \* broker: QoS of the channel, 0 = none set
    nextTag,        \* broker: next delivery tag of the channel
    nextId,         \* next envelope id to publish
    consuming,      \* a consumer is registered on the channel (basic_consume)
    connection,     \* self.connection: "none" | "open" | "closed"
    channel,        \* self.channel:    "none" | "open" | "closed"
    message_count,  \* self.message_count
    running,        \* self.running
    pc,             \* position of main()
    cur,            \* the delivery handle_message is working on
    stoppedAt,      \* position that the signal handler interrupted
    exitCode,       \* main()'s return value / exit status
    runs,           \* number of main() invocations so far
    last,           \* the handle_message invocation that ended most recently
    deliveries,     \* per envelope: number of deliveries to the consumer (up to MaxRuns)
    abandoned,      \* envelopes that were in handle_message when the channel went away
    faulted,        \* a broker operation has raised in this execution
    attempts,       \* per envelope: the deliveries the broker made, by redelivered flag
    startup,        \* this run of main(): connection attempts made, whether connect()
                    \* raised, whether start_consuming() was called
    failures        \* per envelope: the times process_message raised on it (up to MaxRuns)

cvars == <<logInfo, queue, unacked, inbox, prefetch, nextTag, nextId, consuming,
           connection, channel, message_count, running, pc, cur, stoppedAt,
           exitCode, runs, last, deliveries, abandoned, faulted, attempts,
           startup, failures>>

VARIABLES
    who,        \* the producer class of this process: "basic" | "topic"
    now,        \* int(time.time())
    hashOf,     \* hash() of each message body in this process
    conn,       \* self.connection of the producer
    chan,       \* self.channel of the producer
    wire,       \* messages basic_publish handed to the broker, in order
    pcall,      \* the producer call that ended most recently
    pmain,      \* basic_producer.main(): its position, return value and what it did
    batch       \* the messages argument of the call pcall describes, <<>> when it
                \* is not a send_messages call

pvars == <<who, now, hashOf, conn, chan, wire, pcall, pmain, batch>>

VARIABLES
    mpattern,   \* RoutingKeyMatcher.matches: the TopicPattern argument
    mkey,       \* RoutingKeyMatcher.matches: the key argument, a string
    mresult     \* what matches returned: "none" (not called yet) | "true" | "false"

mvars == <<mpattern, mkey, mresult>>

Ids == 1..MaxMsgs

\* ---- broker -------------------------------------------------------------

\* The envelopes the broker puts back when the channel goes away.
Requeued(ds) == [i \in 1..Len(ds) |-> [ds[i].env EXCEPT !.redelivered = TRUE]]

RemoveTag(ds, t) == SelectSeq(ds, LAMBDA d : d.tag # t)

\* A publish that is repeated: the same envelope enters the queue twice.
PublishTwice(b) ==
    /\ nextId <= MaxMsgs
    /\ LET e == [id |-> nextId, body |-> b, redelivered |-> FALSE] IN
         queue' = queue \o <<e, e>>
    /\ nextId' = nextId + 1
    /\ UNCHANGED <<logInfo, startup, unacked, inbox, prefetch, nextTag, consuming, connection,
                   channel, message_count, running, pc, cur, stoppedAt, exitCode,
                   runs, last, deliveries, attempts, abandoned>>
    /\ UNCHANGED <<pvars, mvars>>
    /\ UNCHANGED failures
    /\ UNCHANGED faulted

\* exchange '' / routing_key python_basic_queue: a producer's basic_publish.
Publish(b) ==
    /\ nextId <= MaxMsgs
    /\ queue' = Append(queue, [id |-> nextId, body |-> b, redelivered |-> FALSE])
    /\ nextId' = nextId + 1
    /\ UNCHANGED <<logInfo, startup, unacked, inbox, prefetch, nextTag, consuming, connection,
                   channel, message_count, running, pc, cur, stoppedAt, exitCode,
                   runs, last, deliveries, attempts, abandoned>>
    /\ UNCHANGED <<pvars, mvars>>
    /\ UNCHANGED failures
    /\ UNCHANGED faulted

\* A consumer registered with automatic acknowledgment.
auto_ack_on == TRUE

\* basic_consume(..., auto_ack=False) (line 79): manual acknowledgment.
auto_ack == FALSE

\* The broker pushes the head of the queue while the QoS window allows; under
\* automatic acknowledgment it settles the delivery as it sends it.
BrokerDeliver ==
    /\ consuming
    /\ connection = "open"
    /\ queue # <<>>
    /\ prefetch = 0 \/ Len(unacked) < prefetch
    /\ LET d == [tag |-> nextTag, env |-> Head(queue)] IN
         /\ unacked' = IF auto_ack THEN unacked ELSE Append(unacked, d)
         /\ inbox' = Append(inbox, d)
    /\ attempts' = [attempts EXCEPT ![Head(queue).id] =
                        IF Head(queue).redelivered THEN [@ EXCEPT !.again = TRUE]
                                                   ELSE [@ EXCEPT !.first = @ + 1]]
    /\ queue' = Tail(queue)
    /\ nextTag' = nextTag + 1
    /\ UNCHANGED <<logInfo, startup, prefetch, nextId, consuming, connection, channel,
                   message_count, running, pc, cur, stoppedAt, exitCode, runs, last,
                   deliveries, abandoned>>
    /\ UNCHANGED <<pvars, mvars>>
    /\ UNCHANGED failures
    /\ UNCHANGED faulted


\* The channel goes away (connection closed, or the process exits): unacknowledged
\* deliveries return to the head of the queue, flagged redelivered.
BrokerDrop ==
    /\ queue' = Requeued(unacked) \o queue
    /\ unacked' = <<>>
    /\ inbox' = <<>>
    /\ abandoned' = abandoned \cup
          {unacked[i].env.id : i \in {j \in 1..Len(unacked) :
                \A k \in 1..Len(inbox) : inbox[k].tag # unacked[j].tag}}

\* basic_ack(delivery_tag) completing at the broker.
BrokerAck(t) ==
    /\ unacked' = RemoveTag(unacked, t)
    /\ queue' = queue

\* basic_nack(delivery_tag, requeue) completing at the broker.
BrokerNack(t, requeue) ==
    /\ unacked' = RemoveTag(unacked, t)
    /\ queue' = IF requeue
                THEN <<[id |-> cur.id, body |-> cur.body, redelivered |-> TRUE]>> \o queue
                ELSE queue

\* ---- logger.py ----------------------------------------------------------

\* log_queue_declared: info("Queue declared", {'name': name}); "name" is a
\* LogRecord attribute, so the record cannot be made when INFO is enabled.
LogQueueDeclaredRaises == logInfo

\* process_message: info(..., {'id': ..., 'message': ...}); "message" is reserved.
ProcessInfoRaises == logInfo

\* A log_message_failed that logs the failure and returns.
LogMessageFailedReturns == FALSE

\* log_message_failed(message_id, error): the parameter `error` shadows the module's
\* error() function, so error(...) calls the exception object: TypeError, always.
LogMessageFailedRaises == TRUE

\* ---- BasicConsumer ------------------------------------------------------

ConnectFaults == {"none", "unreachable", "declare"}

\* A main() whose `except Exception` block logs and falls through to `return 0`.
ExceptExceptionReturnsZero == pc' = "finally" /\ exitCode' = 0

\* main()'s `except Exception` block (lines 217-219): error(...), return 1; the
\* finally block runs before main() returns.
ExceptException == pc' = "finally" /\ exitCode' = 1

NoStartup == [connects |-> 0, failed |-> FALSE, consumed |-> FALSE]

\* A connect() that never declares a prefetch limit: the broker's window stays
\* unlimited.
basic_qos_skipped(count) == UNCHANGED prefetch

\* self.channel.basic_qos(prefetch_count=...) (line 54).
basic_qos(count) == prefetch' = count

\* connect(), called from main()'s try block; an exception is logged, re-raised
\* and lands in main()'s `except Exception` (return 1, then finally).
Connect(fault) ==
    /\ pc = "start"
    /\ IF fault = "unreachable"
       THEN /\ ExceptException
            /\ UNCHANGED <<connection, channel, prefetch, nextTag>>
       ELSE /\ connection' = "open"
            /\ channel' = "open"
            /\ nextTag' = 1
            /\ IF fault = "declare" \/ LogQueueDeclaredRaises
               THEN /\ ExceptException
                    /\ UNCHANGED prefetch
               ELSE /\ basic_qos(PrefetchCount)
                    /\ pc' = "connected" /\ UNCHANGED exitCode
    /\ startup' = [startup EXCEPT !.connects = @ + 1, !.failed = (pc' = "finally")]
    /\ faulted' = (faulted \/ fault # "none")
    /\ UNCHANGED <<logInfo, queue, unacked, inbox, nextId, consuming, message_count,
                   running, cur, stoppedAt, runs, last, deliveries, attempts, abandoned>>
    /\ UNCHANGED <<pvars, mvars>>
    /\ UNCHANGED failures

\* start_consuming() up to the blocking channel.start_consuming() loop.
StartConsuming ==
    /\ pc = "connected"
    /\ IF channel = "none"
       THEN /\ ExceptException /\ UNCHANGED consuming
       ELSE /\ consuming' = TRUE /\ pc' = "consuming" /\ UNCHANGED exitCode
    /\ startup' = [startup EXCEPT !.consumed = TRUE]
    /\ UNCHANGED <<logInfo, queue, unacked, inbox, prefetch, nextTag, nextId,
                   connection, channel, message_count, running, cur, stoppedAt,
                   runs, last, deliveries, attempts, abandoned>>
    /\ UNCHANGED <<pvars, mvars>>
    /\ UNCHANGED failures
    /\ UNCHANGED faulted

\* The consume loop invokes callback -> handle_message (lines 85-88).
Dispatch ==
    /\ pc = "consuming"
    /\ consuming
    /\ inbox # <<>>
    /\ LET d == Head(inbox) IN
         /\ cur' = [tag |-> d.tag, id |-> d.env.id, body |-> d.env.body,
                    redelivered |-> d.env.redelivered]
         /\ deliveries' = [deliveries EXCEPT ![d.env.id] =
                                 IF @ < MaxRuns THEN @ + 1 ELSE @]
    /\ inbox' = Tail(inbox)
    /\ message_count' = message_count + 1
    /\ pc' = "decode"
    /\ UNCHANGED attempts
    /\ UNCHANGED <<logInfo, startup, queue, unacked, prefetch, nextTag, nextId, consuming,
                   connection, channel, running, stoppedAt, exitCode, runs, last,
                   abandoned>>
    /\ UNCHANGED <<pvars, mvars>>
    /\ UNCHANGED failures
    /\ UNCHANGED faulted

\* A callback that acknowledges with the tag of the delivery before this one.
DeliveryTagPrevious == IF cur.tag > 1 THEN cur.tag - 1 ELSE cur.tag

\* method.delivery_tag, the argument of basic_ack / basic_nack (lines 110, 121,
\* 130, 132): the tag that arrived with the delivery being handled.
DeliveryTag == cur.tag

\* The broker holds tag t as delivered and not yet acknowledged.
Outstanding(t) == \E i \in 1..Len(unacked) : unacked[i].tag = t

NoRec ==
    [run |-> 0, tag |-> 0, id |-> 0, redelivered |-> FALSE, body |-> "none", count |-> 0,
     decode |-> "notrun", handler |-> "notrun", outcome |-> "None", ops |-> 0,
     fault |-> FALSE, end |-> "none", acktag |-> 0, live |-> FALSE]

\* What one handle_message invocation did: decode is "ok" or the body kind that
\* failed to decode, handler is "ok" | "fail" | "notrun", ops counts the
\* basic_ack / basic_nack calls it issued, fault says that such a call raised,
\* outcome is the call that completed,
\* end is how the invocation ended ("returned" | "raised" | "signal"),
\* acktag is the delivery tag those calls carried (0 when none was issued) and
\* live says that the broker held that tag as outstanding when they were issued.
Rec(decode, handler, outcome, ops, fault, end) ==
    [run |-> runs, tag |-> cur.tag, id |-> cur.id, redelivered |-> cur.redelivered,
     body |-> cur.body, count |-> message_count,
     decode |-> decode, handler |-> handler, outcome |-> outcome, ops |-> ops,
     fault |-> fault, end |-> end,
     acktag |-> IF ops > 0 THEN DeliveryTag ELSE 0,
     live |-> ops > 0 /\ Outstanding(DeliveryTag)]

\* handle_message returns to the consume loop.
Return(rec) ==
    /\ last' = rec
    /\ faulted' = (faulted \/ rec.fault)
    /\ cur' = NoDelivery
    /\ pc' = "consuming"
    /\ UNCHANGED exitCode

\* An exception leaves handle_message, the callback and start_consuming(), and
\* is caught by main()'s `except Exception`: return 1, after finally.
Escape(rec) ==
    /\ last' = rec
    /\ faulted' = (faulted \/ rec.fault)
    /\ cur' = NoDelivery
    /\ ExceptException

\* handle_message's `except Exception` block (lines 123-132).
\* ackRaised: the exception is the one basic_ack raised (one call already issued).
OnException(decode, handler, ackRaised, nackRaises) ==
    LET issued == IF ackRaised THEN 1 ELSE 0 IN
    IF LogMessageFailedRaises
    THEN /\ Escape(Rec(decode, handler, "None", issued, ackRaised, "raised"))
         /\ UNCHANGED <<queue, unacked>>
    ELSE IF nackRaises
    THEN /\ Escape(Rec(decode, handler, "None", issued + 1, TRUE, "raised"))
         /\ UNCHANGED <<queue, unacked>>
    ELSE /\ BrokerNack(DeliveryTag, ~cur.redelivered)
         /\ Return(Rec(decode, handler,
                       IF cur.redelivered THEN "NackDiscard" ELSE "NackRequeue",
                       issued + 1, ackRaised, "returned"))

\* json.loads(body.decode('utf-8')) and the logging that follows (lines 90-102),
\* with the `except json.JSONDecodeError` block (lines 118-121).
Decode(nackRaises) ==
    /\ pc = "decode"
    /\ CASE cur.body \in {"plain", "backup", "badtype"} ->
              /\ pc' = "process"
              /\ UNCHANGED <<queue, unacked, cur, last, exitCode, faulted>>
         [] cur.body = "badjson" ->
              IF nackRaises
              THEN /\ Escape(Rec("badjson", "notrun", "None", 1, TRUE, "raised"))
                   /\ UNCHANGED <<queue, unacked>>
              ELSE /\ BrokerNack(DeliveryTag, FALSE)
                   /\ Return(Rec("badjson", "notrun", "NackDiscard", 1, FALSE, "returned"))
         [] cur.body = "badutf8" -> OnException("badutf8", "notrun", FALSE, nackRaises)
         [] cur.body = "nonobject" -> OnException("nonobject", "notrun", FALSE, nackRaises)
    /\ UNCHANGED <<logInfo, startup, inbox, prefetch, nextTag, nextId, consuming, connection,
                   channel, message_count, running, stoppedAt, runs, deliveries, attempts,
                   abandoned>>
    /\ UNCHANGED <<pvars, mvars>>
    /\ UNCHANGED failures

\* A process_message whose simulated fault also fires on the delivery after a
\* multiple of five.
ProcessFailsTwice(body, count) ==
    \/ ProcessInfoRaises
    \/ body = "badtype"
    \/ body = "backup" /\ count % FaultEvery \in {0, 1}

\* process_message(message_data) (lines 134-164): TRUE when it raises.
ProcessFails(body, count) ==
    \/ ProcessInfoRaises
    \/ body = "badtype"
    \/ body = "backup" /\ count % FaultEvery = 0

\* self.process_message(message_data) inside handle_message (lines 104-107).
Process(nackRaises) ==
    /\ pc = "process"
    /\ IF ProcessFails(cur.body, message_count)
       THEN OnException("ok", "fail", FALSE, nackRaises)
       ELSE /\ pc' = "ack"
            /\ UNCHANGED <<queue, unacked, cur, last, exitCode, faulted>>
    /\ UNCHANGED <<logInfo, startup, inbox, prefetch, nextTag, nextId, consuming, connection,
                   channel, message_count, running, stoppedAt, runs, deliveries, attempts,
                   abandoned>>
    /\ UNCHANGED <<pvars, mvars>>
    /\ failures' = IF ProcessFails(cur.body, message_count)
                   THEN [failures EXCEPT ![cur.id] = IF @ < MaxRuns THEN @ + 1 ELSE @]
                   ELSE failures

\* channel.basic_ack and the logging after it (lines 109-116).
Ack(ackRaises, nackRaises) ==
    /\ pc = "ack"
    /\ IF ackRaises
       THEN OnException("ok", "ok", TRUE, nackRaises)
       ELSE /\ BrokerAck(DeliveryTag)
            /\ Return(Rec("ok", "ok", "Ack", 1, FALSE, "returned"))
    /\ UNCHANGED <<logInfo, startup, inbox, prefetch, nextTag, nextId, consuming, connection,
                   channel, message_count, running, stoppedAt, runs, deliveries, attempts,
                   abandoned>>
    /\ UNCHANGED <<pvars, mvars>>
    /\ UNCHANGED failures


\* stop(): lines 174-178, as called by signal_handler (lines 192-196) in the main
\* thread, wherever main() is at that moment.
InTry == {"start", "connected", "consuming", "decode", "process", "ack"}

stop ==
    /\ running' = FALSE
    /\ consuming' = IF channel # "none" THEN FALSE ELSE consuming

SignalStop ==
    /\ pc \in InTry
    /\ stop
    /\ stoppedAt' = pc
    /\ pc' = "sig_stopped"
    /\ UNCHANGED <<logInfo, startup, queue, unacked, inbox, prefetch, nextTag, nextId,
                   connection, channel, message_count, cur, exitCode, runs, last,
                   deliveries, attempts, abandoned>>
    /\ UNCHANGED <<pvars, mvars>>
    /\ UNCHANGED failures
    /\ UNCHANGED faulted

\* close(): lines 180-189. stopRaises: channel.stop_consuming() raises, so that
\* connection.close() is skipped and the exception is only logged.
close(stopRaises) ==
    IF channel # "none" /\ stopRaises
    THEN /\ faulted' = TRUE
         /\ UNCHANGED <<connection, channel, consuming, queue, unacked, inbox, abandoned>>
    ELSE /\ consuming' = IF channel # "none" THEN FALSE ELSE consuming
         /\ UNCHANGED faulted
         /\ IF connection = "open"
            THEN /\ connection' = "closed"
                 /\ channel' = IF channel = "none" THEN "none" ELSE "closed"
                 /\ BrokerDrop
            ELSE UNCHANGED <<connection, channel, queue, unacked, inbox, abandoned>>

\* signal_handler after stop(): consumer.close(), then exit(0). SystemExit unwinds
\* the interrupted frame (handle_message's `except Exception` does not catch it)
\* up to main()'s finally.
SignalClose(stopRaises) ==
    /\ pc = "sig_stopped"
    /\ close(stopRaises)
    /\ IF stoppedAt \in {"decode", "process", "ack"}
       THEN last' = Rec(IF stoppedAt = "decode" THEN "notrun" ELSE "ok",
                        IF stoppedAt = "ack" THEN "ok" ELSE "notrun",
                        "None", 0, FALSE, "signal")
       ELSE last' = last
    /\ cur' = NoDelivery
    /\ pc' = "finally"
    /\ exitCode' = 0
    /\ UNCHANGED <<logInfo, startup, prefetch, nextTag, nextId, message_count, running,
                   stoppedAt, runs, deliveries, attempts>>
    /\ UNCHANGED <<pvars, mvars>>
    /\ UNCHANGED failures

\* main()'s finally block (lines 220-221): consumer.close().
Finally(stopRaises) ==
    /\ pc = "finally"
    /\ close(stopRaises)
    /\ pc' = "returned"
    /\ UNCHANGED <<logInfo, startup, prefetch, nextTag, nextId, message_count, running, cur,
                   stoppedAt, exitCode, runs, last, deliveries, attempts>>
    /\ UNCHANGED <<pvars, mvars>>
    /\ UNCHANGED failures

\* exit(main()): the process ends; the broker sees its socket close.
Exit ==
    /\ pc = "returned"
    /\ pc' = "exited"
    /\ consuming' = FALSE
    /\ BrokerDrop
    /\ UNCHANGED <<logInfo, startup, prefetch, nextTag, nextId, connection, channel,
                   message_count, running, cur, stoppedAt, exitCode, runs, last,
                   deliveries, attempts>>
    /\ UNCHANGED <<pvars, mvars>>
    /\ UNCHANGED failures
    /\ UNCHANGED faulted

\* The consumer script is started again: main() builds a new BasicConsumer
\* (__init__, lines 18-23).
Restart ==
    /\ pc = "exited"
    /\ runs < MaxRuns
    /\ runs' = runs + 1
    /\ connection' = "none"
    /\ channel' = "none"
    /\ message_count' = 0
    /\ running' = TRUE
    /\ pc' = "start"
    /\ stoppedAt' = "none"
    /\ exitCode' = -1
    /\ prefetch' = 0
    /\ startup' = NoStartup
    /\ UNCHANGED <<logInfo, queue, unacked, inbox, nextTag, nextId, consuming, cur,
                   last, deliveries, attempts, abandoned>>
    /\ UNCHANGED <<pvars, mvars>>
    /\ UNCHANGED failures
    /\ UNCHANGED faulted

CInit ==
    /\ logInfo \in BOOLEAN
    /\ queue = <<>>
    /\ unacked = <<>>
    /\ inbox = <<>>
    /\ prefetch = 0
    /\ nextTag = 1
    /\ nextId = 1
    /\ consuming = FALSE
    /\ connection = "none"
    /\ channel = "none"
    /\ message_count = 0
    /\ running = TRUE
    /\ pc = "start"
    /\ cur = NoDelivery
    /\ stoppedAt = "none"
    /\ exitCode = -1
    /\ runs = 1
    /\ last = NoRec
    /\ deliveries = [i \in Ids |-> 0]
    /\ attempts = [i \in Ids |-> [first |-> 0, again |-> FALSE]]
    /\ startup = NoStartup
    /\ abandoned = {}
    /\ faulted = FALSE
    /\ failures = [i \in Ids |-> 0]

CNext ==
    \/ \E b \in Bodies : Publish(b)
    \/ BrokerDeliver
    \/ \E f \in ConnectFaults : Connect(f)
    \/ StartConsuming
    \/ Dispatch
    \/ \E n \in BOOLEAN : Decode(n)
    \/ \E n \in BOOLEAN : Process(n)
    \/ \E a, n \in BOOLEAN : Ack(a, n)
    \/ SignalStop
    \/ \E r \in BOOLEAN : SignalClose(r)
    \/ \E r \in BOOLEAN : Finally(r)
    \/ Exit
    \/ Restart

\* ---- BasicProducer / TopicProducer --------------------------------------

MaxSends == 2     \* messages handed to the broker by the producer
MaxClock == 1     \* seconds int(time.time()) advances

HashMod == 1000       \* hash(message_body) % 1000
\* Properties built without the persistent flag (delivery_mode 1, transient).
DeliveryModeTransient == 2 - 1

DeliveryMode == 2     \* delivery_mode=2, persistent

Producers == {"basic", "topic"}
Msgs == {"m1", "m2"}
Words == {"user", "page"}
\* hash(message_body) values: 7 and 1007 agree modulo 1000, 8 differs from both.
HashVals == {7, 8, 1007}

\* A message_id value: a formatted string kept as its format and its fields.
Id(fmt, n1, n2, s1, s2) == [fmt |-> fmt, n1 |-> n1, n2 |-> n2, s1 |-> s1, s2 |-> s2]
NoneId == Id("None", 0, 0, "", "")
Str(x) == Id("str", 0, 0, x, "")
\* A message_id argument that is not a string: the integer 42.
IntArg == Id("int", 42, 0, "", "")
\* The message_id arguments a caller passes: None, '', a non-empty string and a
\* value that is not a string.
IdArgs == {NoneId, Str(""), Str("id-a"), IntArg}
Falsy(id) == id = NoneId \/ id = Str("")
\* The value is a str: an f-string the producer built or a string argument.
IsString(id) == id.fmt \notin {"None", "int"}

NoCall == [op |-> "none", publishFailed |-> FALSE, publishes |-> 0, added |-> 0,
           result |-> "none"]

\* basic_publish raises: a fault, or the channel is no longer open.
PublishRaises(fails) == fails \/ chan # "open"

\* basic_publish cannot encode the properties: message_id is an AMQP short string,
\* and a value without .encode() makes the call raise before anything is sent.
EncodeRaises(id) == ~IsString(id)

\* What is handed to the broker: the body (named by the message it encodes) and
\* pika.BasicProperties(delivery_mode, timestamp, message_id); generated says that
\* the id was built by the producer, not passed by the caller of send_message.
Wire(rk, msg, id, t, generated) ==
    [routing_key |-> rk, body |-> msg, message_id |-> id, timestamp |-> t,
     delivery_mode |-> DeliveryMode, generated |-> generated]

\* message_id or f"msg-{int(time.time())}-{hash(message_body) % 1000}"
BasicMessageId(m, mid, t) ==
    IF Falsy(mid) THEN Id("msg", t, hashOf[m] % HashMod, "", "") ELSE mid

\* message_id or f"topic-{int(time.time())}-{hash(message_body) % 1000}"
TopicMessageId(m, mid, t) ==
    IF Falsy(mid) THEN Id("topic", t, hashOf[m] % HashMod, "", "") ELSE mid

\* A send_message that retries a failed publish once and then reports success.
BasicSendOutcomeRetry(publishRaises) ==
    IF publishRaises THEN [publishes |-> 2, result |-> "returned"]
                     ELSE [publishes |-> 1, result |-> "returned"]

\* BasicProducer.send_message from basic_publish on: the number of basic_publish
\* invocations and how the call ends (the except block logs and re-raises).
BasicSendOutcome(publishRaises) ==
    IF publishRaises THEN [publishes |-> 1, result |-> "raised"]
                     ELSE [publishes |-> 1, result |-> "returned"]

\* TopicProducer.send_message from basic_publish on.
TopicSendOutcome(publishRaises) ==
    IF publishRaises THEN [publishes |-> 1, result |-> "raised"]
                     ELSE [publishes |-> 1, result |-> "returned"]

\* connect() of the producer: the connection and channel are stored before
\* queue_declare / exchange_declare and log_queue_declared / log_exchange_declared
\* (whose extra dict holds 'name') can raise.
producer_connect(fault) ==
    IF fault = "unreachable"
    THEN /\ UNCHANGED <<conn, chan>>
         /\ pcall' = [NoCall EXCEPT !.op = "connect", !.result = "raised"]
    ELSE /\ conn' = "open"
         /\ chan' = "open"
         /\ pcall' = [NoCall EXCEPT !.op = "connect",
                        !.result = IF fault = "declare" \/ logInfo
                                   THEN "raised" ELSE "returned"]

\* A caller's producer.connect() on a new producer object.
PConnect(fault) ==
    /\ conn = "none"
    /\ producer_connect(fault)
    /\ UNCHANGED <<who, pmain, now, hashOf, wire>>
    /\ UNCHANGED <<cvars, mvars>>
    /\ batch' = <<>>

\* BasicProducer.send_message(message, message_id)
send_message(m, mid, fails, generated, t) ==
    IF chan = "none"
    THEN /\ pcall' = [NoCall EXCEPT !.op = "send_message", !.result = "raised"]
         /\ UNCHANGED wire
    ELSE LET raises == PublishRaises(fails) \/ EncodeRaises(BasicMessageId(m, mid, t))
             out == BasicSendOutcome(raises)
         IN /\ wire' = IF out.result = "returned"
                       THEN Append(wire, Wire(<<"python_basic_queue">>, m,
                                              BasicMessageId(m, mid, t), t, generated))
                       ELSE wire
            /\ pcall' = [op |-> "send_message", publishFailed |-> raises,
                         publishes |-> out.publishes,
                         added |-> Len(wire') - Len(wire), result |-> out.result]

BasicSend(m, mid, fails) ==
    /\ who = "basic"
    /\ Len(wire) < MaxSends
    /\ send_message(m, mid, fails, Falsy(mid), now)
    /\ UNCHANGED <<who, pmain, now, hashOf, conn, chan>>
    /\ UNCHANGED <<cvars, mvars>>
    /\ batch' = <<>>

\* TopicProducer.send_message(routing_key, message, message_id)
topic_send_message(rk, m, mid, fails, generated, op) ==
    IF chan = "none"
    THEN /\ pcall' = [NoCall EXCEPT !.op = op, !.result = "raised"]
         /\ UNCHANGED wire
    ELSE LET raises == PublishRaises(fails) \/ EncodeRaises(TopicMessageId(m, mid, now))
             out == TopicSendOutcome(raises)
         IN /\ wire' = IF out.result = "returned"
                       THEN Append(wire, Wire(rk, m, TopicMessageId(m, mid, now), now,
                                              generated))
                       ELSE wire
            /\ pcall' = [op |-> op, publishFailed |-> raises,
                         publishes |-> out.publishes,
                         added |-> Len(wire') - Len(wire), result |-> out.result]

TopicSend(rk, m, mid, fails) ==
    /\ who = "topic"
    /\ Len(wire) < MaxSends
    /\ topic_send_message(<<rk>>, m, mid, fails, Falsy(mid), "send_message")
    /\ UNCHANGED <<who, pmain, now, hashOf, conn, chan>>
    /\ UNCHANGED <<cvars, mvars>>
    /\ batch' = <<>>

\* send_analytics_message(category, action, label, value); the message dict is
\* named by the label the caller passes.
send_analytics_message(category, action, label, fails) ==
    /\ who = "topic"
    /\ Len(wire) < MaxSends
    /\ topic_send_message(<<"analytics", category, action>>, label,
                          Id("analytics", 0, 0, category, action), fails, TRUE,
                          "send_analytics_message")
    /\ UNCHANGED <<who, pmain, now, hashOf, conn, chan>>
    /\ UNCHANGED <<cvars, mvars>>
    /\ batch' = <<>>

\* send_notification_message(user_id, type, priority, content); the message dict is
\* named by its content.
send_notification_message(type, priority, content, fails) ==
    /\ who = "topic"
    /\ Len(wire) < MaxSends
    /\ topic_send_message(<<"notification", priority, type>>, content,
                          Id("notification", 0, 0, type, priority), fails, TRUE,
                          "send_notification_message")
    /\ UNCHANGED <<who, pmain, now, hashOf, conn, chan>>
    /\ UNCHANGED <<cvars, mvars>>
    /\ batch' = <<>>

\* send_event_message(resource, action, event_type, data); the message dict is
\* named by its data.
send_event_message(resource, action, data, fails) ==
    /\ who = "topic"
    /\ Len(wire) < MaxSends
    /\ topic_send_message(<<resource, action, "account">>, data,
                          Id("event", 0, 0, resource, action), fails, TRUE,
                          "send_event_message")
    /\ UNCHANGED <<who, pmain, now, hashOf, conn, chan>>
    /\ UNCHANGED <<cvars, mvars>>
    /\ batch' = <<>>

\* A send_messages that logs a failed publish and goes on with the next message:
\* every message but the failing one is handed to the broker and the call returns.
producer_send_messages_skipping(ms, failAt, dt) ==
    /\ Len(wire) + Len(ms) <= MaxSends
    /\ now + dt * (Len(ms) - 1) <= MaxClock
    /\ batch' = ms
    /\ LET halt == IF chan # "open" THEN 1 ELSE failAt
           at(i) == now + dt * (i - 1)
           kept == SelectSeq([i \in 1..Len(ms) |-> i], LAMBDA i : i # halt)
           sent == [j \in 1..Len(kept) |->
                      Wire(<<"python_basic_queue">>, ms[kept[j]],
                           BasicMessageId(ms[kept[j]],
                                          Id("batch", kept[j], at(kept[j]), "", ""),
                                          at(kept[j])),
                           at(kept[j]), TRUE)]
       IN /\ wire' = wire \o sent
          /\ now' = now + dt * (Len(ms) - 1)
          /\ pcall' = [op |-> "send_messages",
                       publishFailed |-> halt # 0 /\ chan # "none",
                       publishes |-> Len(ms),
                       added |-> Len(kept),
                       result |-> "returned"]

\* send_messages(messages, delay): message i is sent with id batch-{i}-{time}; dt is
\* the number of seconds each sleep(delay) moves int(time.time()); failAt is the
\* index of the message whose publish raises, 0 when none does.
producer_send_messages(ms, failAt, dt) ==
    /\ Len(wire) + Len(ms) <= MaxSends
    /\ now + dt * (Len(ms) - 1) <= MaxClock
    /\ batch' = ms
    /\ LET halt == IF chan # "open" THEN 1 ELSE failAt
           k == IF halt = 0 THEN Len(ms) ELSE halt - 1
           at(i) == now + dt * (i - 1)
           sent == [i \in 1..k |->
                      Wire(<<"python_basic_queue">>, ms[i],
                           BasicMessageId(ms[i], Id("batch", i, at(i), "", ""), at(i)),
                           at(i), TRUE)]
       IN /\ wire' = wire \o sent
          /\ now' = now + dt * (IF halt = 0 THEN Len(ms) - 1 ELSE k)
          /\ pcall' = [op |-> "send_messages",
                       publishFailed |-> halt # 0 /\ chan # "none",
                       publishes |-> IF chan = "none" THEN 0
                                     ELSE IF halt = 0 THEN Len(ms)
                                     ELSE (halt - 1) + BasicSendOutcome(TRUE).publishes,
                       added |-> k,
                       result |-> IF halt = 0 THEN "returned" ELSE "raised"]

\* A caller's producer.send_messages(messages, delay).
send_messages(ms, failAt, dt) ==
    /\ who = "basic"
    /\ producer_send_messages(ms, failAt, dt)
    /\ UNCHANGED <<who, pmain, hashOf, conn, chan>>
    /\ UNCHANGED <<cvars, mvars>>

\* close() of the producer: channel.close() raising skips connection.close(); the
\* exception is logged, not raised.
\* A close() without the try block and the is_closed test: closing a connection
\* that is already closed raises to the caller.
producer_close_unguarded(chanRaises) ==
    /\ pcall' = [NoCall EXCEPT !.op = "close",
                   !.result = IF conn = "closed" \/ (chan # "none" /\ chanRaises)
                              THEN "raised" ELSE "returned"]
    /\ IF chan # "none" /\ chanRaises
       THEN UNCHANGED <<conn, chan>>
       ELSE /\ chan' = IF chan = "none" THEN "none" ELSE "closed"
            /\ conn' = IF conn = "open" THEN "closed" ELSE conn

producer_close(chanRaises) ==
    /\ pcall' = [NoCall EXCEPT !.op = "close", !.result = "returned"]
    /\ IF chan # "none" /\ chanRaises
       THEN UNCHANGED <<conn, chan>>
       ELSE /\ chan' = IF chan = "none" THEN "none" ELSE "closed"
            /\ conn' = IF conn = "open" THEN "closed" ELSE conn

\* A caller's producer.close().
PClose(chanRaises) ==
    /\ producer_close(chanRaises)
    /\ UNCHANGED <<who, pmain, now, hashOf, wire>>
    /\ UNCHANGED <<cvars, mvars>>
    /\ batch' = <<>>

\* A second passes.
Tick ==
    /\ now < MaxClock
    /\ now' = now + 1
    /\ UNCHANGED <<who, pmain, hashOf, conn, chan, wire, pcall>>
    /\ UNCHANGED <<cvars, mvars>>
    /\ UNCHANGED batch

\* basic_producer.main() (lines 106-167): pc is its position, exit the value it
\* returns, connects the number of connection attempts, failed that connect()
\* raised, sends the number of send_messages calls it made.
NoMain == [pc |-> "start", exit |-> -1, connects |-> 0, failed |-> FALSE, sends |-> 0]

\* producer.connect() in main()'s try block; an exception lands in
\* `except Exception` (return 1, after finally).
MainConnect(fault) ==
    /\ who = "basic"
    /\ pmain.pc = "start"
    /\ producer_connect(fault)
    /\ LET raised == pcall'.result = "raised" IN
         pmain' = [pmain EXCEPT !.connects = @ + 1,
                                !.failed = raised,
                                !.pc = IF raised THEN "finally" ELSE "sending",
                                !.exit = IF raised THEN 1 ELSE @]
    /\ UNCHANGED <<who, now, hashOf, wire>>
    /\ UNCHANGED <<cvars, mvars>>
    /\ batch' = <<>>

\* producer.send_messages(messages, delay=0.5) (line 156) and the prints after it.
MainSend(failAt, dt) ==
    /\ pmain.pc = "sending"
    /\ producer_send_messages(<<"m1", "m2">>, failAt, dt)
    /\ pmain' = [pmain EXCEPT !.sends = @ + 1,
                               !.pc = "finally",
                               !.exit = IF pcall'.result = "raised" THEN 1 ELSE 0]
    /\ UNCHANGED <<who, hashOf, conn, chan>>
    /\ UNCHANGED <<cvars, mvars>>

\* main()'s finally block (lines 164-165): producer.close(); then main() returns.
MainFinally(chanRaises) ==
    /\ pmain.pc = "finally"
    /\ producer_close(chanRaises)
    /\ pmain' = [pmain EXCEPT !.pc = "returned"]
    /\ UNCHANGED <<who, now, hashOf, wire>>
    /\ UNCHANGED <<cvars, mvars>>
    /\ batch' = <<>>

PStart ==
    /\ now = 0
    /\ conn = "none"
    /\ chan = "none"
    /\ wire = <<>>
    /\ pcall = NoCall
    /\ pmain = NoMain
    /\ batch = <<>>

PNext ==
    \/ \E f \in ConnectFaults : PConnect(f)
    \/ \E m \in Msgs, mid \in IdArgs, f \in BOOLEAN : BasicSend(m, mid, f)
    \/ \E m \in Msgs, mid \in IdArgs, f \in BOOLEAN : TopicSend("x", m, mid, f)
    \/ \E c \in Words, m \in Msgs, f \in BOOLEAN : send_analytics_message(c, "login", m, f)
    \/ \E t \in Words, f \in BOOLEAN : send_notification_message(t, "high", "m1", f)
    \/ \E r \in Words, f \in BOOLEAN : send_event_message(r, "create", "m1", f)
    \/ \E a, b \in Msgs, k \in 0..2, dt \in 0..1 : send_messages(<<a, b>>, k, dt)
    \/ \E r \in BOOLEAN : PClose(r)
    \/ Tick

\* ---- RoutingKeyMatcher ---------------------------------------------------
\* matches(pattern, key) as section 4.2 of the specification describes it; the
\* repository's files hold no matcher (the topic consumer is not among them).

MaxKeyLen == 4    \* characters of a routing key
MaxPatLen == 2    \* segment matchers of a pattern

\* A string is the sequence of its characters.
Chars == {"a", "b", "."}
\* The keys of the specification's examples that are not over Chars: "a.b.c", "b.c".
ExampleKeys == {<<"a", ".", "b", ".", "c">>, <<"b", ".", "c">>}
Keys == (UNION {[1..n -> Chars] : n \in 0..MaxKeyLen}) \cup ExampleKeys
Literals == {<<"a">>, <<"b">>, <<"a", "b">>}

\* The segment matchers: a literal, the single-segment wildcard '*', the
\* multi-segment wildcard '#'.
Lit(seg) == [kind |-> "literal", seg |-> seg]
Star == [kind |-> "star", seg |-> <<>>]
Hash == [kind |-> "hash", seg |-> <<>>]
Matchers == {Lit(x) : x \in Literals} \cup {Star, Hash}
Patterns == UNION {[1..n -> Matchers] : n \in 0..MaxPatLen}

\* split key on '.': the segments between the dots; a key without a dot, the
\* empty key included, is one segment.
RECURSIVE Split(_)
Split(s) ==
    IF \A i \in 1..Len(s) : s[i] # "."
    THEN <<s>>
    ELSE LET d == CHOOSE i \in 1..Len(s) : s[i] = "." /\ \A j \in 1..(i - 1) : s[j] # "."
         IN <<SubSeq(s, 1, d - 1)>> \o Split(SubSeq(s, d + 1, Len(s)))

\* A matcher that stops when the pattern is consumed, without asking that the key
\* is consumed as well.
RECURSIVE MatchPrefix(_, _)
MatchPrefix(p, k) ==
    IF p = <<>>
    THEN TRUE
    ELSE CASE Head(p).kind = "literal" ->
                 k # <<>> /\ Head(k) = Head(p).seg /\ MatchPrefix(Tail(p), Tail(k))
           [] Head(p).kind = "star" ->
                 k # <<>> /\ MatchPrefix(Tail(p), Tail(k))
           [] Head(p).kind = "hash" ->
                 \E n \in 0..Len(k) : MatchPrefix(Tail(p), SubSeq(k, n + 1, Len(k)))

\* A matcher whose '#' takes all the remaining key segments and never gives one
\* back to the matchers after it.
RECURSIVE MatchGreedy(_, _)
MatchGreedy(p, k) ==
    IF p = <<>>
    THEN k = <<>>
    ELSE CASE Head(p).kind = "literal" ->
                 k # <<>> /\ Head(k) = Head(p).seg /\ MatchGreedy(Tail(p), Tail(k))
           [] Head(p).kind = "star" ->
                 k # <<>> /\ MatchGreedy(Tail(p), Tail(k))
           [] Head(p).kind = "hash" ->
                 MatchGreedy(Tail(p), <<>>)

\* A matcher that treats '#' like '*': it consumes exactly one key segment.
RECURSIVE MatchHashAsStar(_, _)
MatchHashAsStar(p, k) ==
    IF p = <<>>
    THEN k = <<>>
    ELSE CASE Head(p).kind = "literal" ->
                 k # <<>> /\ Head(k) = Head(p).seg /\ MatchHashAsStar(Tail(p), Tail(k))
           [] Head(p).kind = "star" ->
                 k # <<>> /\ MatchHashAsStar(Tail(p), Tail(k))
           [] Head(p).kind = "hash" ->
                 k # <<>> /\ MatchHashAsStar(Tail(p), Tail(k))

\* Walk pattern segments p and key segments k in lockstep: a literal matches iff
\* equal, '*' consumes exactly one key segment, '#' consumes n = 0, 1, ... of the
\* remaining key segments (minimal consumption first, extended until success or
\* the key is exhausted); success iff pattern and key are both fully consumed.
RECURSIVE Match(_, _)
Match(p, k) ==
    IF p = <<>>
    THEN k = <<>>
    ELSE CASE Head(p).kind = "literal" ->
                 k # <<>> /\ Head(k) = Head(p).seg /\ Match(Tail(p), Tail(k))
           [] Head(p).kind = "star" ->
                 k # <<>> /\ Match(Tail(p), Tail(k))
           [] Head(p).kind = "hash" ->
                 \E n \in 0..Len(k) : Match(Tail(p), SubSeq(k, n + 1, Len(k)))

matches(pattern, key) == Match(pattern, Split(key))

\* A call of matches on the arguments of this behaviour.
CallMatches ==
    /\ mresult = "none"
    /\ mresult' = IF matches(mpattern, mkey) THEN "true" ELSE "false"
    /\ UNCHANGED <<mpattern, mkey>>
    /\ UNCHANGED <<cvars, pvars>>

\* No matcher call is part of the behaviour.
MIdle == mpattern = <<>> /\ mkey = <<>> /\ mresult = "none"

\* ---- specifications ------------------------------------------------------

vars == <<cvars, pvars, mvars>>

\* The consumer and its queue; no producer object is in use.
Init ==
    /\ CInit
    /\ PStart
    /\ who = "basic"
    /\ hashOf = [m \in Msgs |-> IF m = "m1" THEN 7 ELSE 8]
    /\ MIdle

Next == CNext

Spec == Init /\ [][Next]_vars

\* One producer process; the consumer is not started.
ProducerInit ==
    /\ CInit
    /\ PStart
    /\ who \in Producers
    /\ hashOf \in {h \in [Msgs -> HashVals] : h["m1"] # h["m2"]}
    /\ MIdle

ProducerNext == PNext

ProducerSpec == ProducerInit /\ [][ProducerNext]_vars

\* Startup and shutdown of both scripts: basic_consumer.main() on an empty queue
\* (started again after it exits) and basic_producer.main().
StartupInit == Init

StartupNext ==
    \/ \E f \in ConnectFaults : Connect(f)
    \/ StartConsuming
    \/ SignalStop
    \/ \E r \in BOOLEAN : SignalClose(r)
    \/ \E r \in BOOLEAN : Finally(r)
    \/ Exit
    \/ Restart
    \/ \E f \in ConnectFaults : MainConnect(f)
    \/ \E k \in 0..2, dt \in 0..1 : MainSend(k, dt)
    \/ \E r \in BOOLEAN : MainFinally(r)

StartupSpec == StartupInit /\ [][StartupNext]_vars

\* Repeated close(): basic_consumer.main() with its signal handler on an empty
\* queue, and a producer object whose caller calls connect() and close().
CloseInit == ProducerInit

CloseNext ==
    \/ \E f \in ConnectFaults : Connect(f)
    \/ StartConsuming
    \/ SignalStop
    \/ \E r \in BOOLEAN : SignalClose(r)
    \/ \E r \in BOOLEAN : Finally(r)
    \/ Exit
    \/ Restart
    \/ \E f \in ConnectFaults : PConnect(f)
    \/ \E r \in BOOLEAN : PClose(r)

CloseSpec == CloseInit /\ [][CloseNext]_vars

\* RoutingKeyMatcher.matches on every pattern and key within the bounds; no
\* consumer or producer runs.
MatcherInit ==
    /\ CInit /\ logInfo = FALSE
    /\ PStart /\ who = "topic"
    /\ hashOf = [m \in Msgs |-> IF m = "m1" THEN 7 ELSE 8]
    /\ mpattern \in Patterns
    /\ mkey \in Keys
    /\ mresult = "none"

MatcherNext == CallMatches

MatcherSpec == MatcherInit /\ [][MatcherNext]_vars


\* ---- properties ----------------------------------------------------------

Ended == last.end \in {"returned", "raised"}

\* C1: every handle_message invocation that returned or raised issued exactly one
\* acknowledgment operation (basic_ack or basic_nack) for its delivery.
C1_ExactlyOneAckOperation == Ended => last.ops = 1

\* C2: a delivery that decodes, is not redelivered, and whose handler raises ends
\* with basic_nack(requeue=True).
C2_FirstFailureRequeues ==
    (Ended /\ last.decode = "ok" /\ last.handler = "fail" /\ ~last.redelivered)
        => last.outcome = "NackRequeue"

\* C3: with no broker fault, a redelivered delivery that decodes ends in NackDiscard
\* when the handler fails and in Ack when it succeeds, never in NackRequeue.
C3_RedeliveredTerminates ==
    (Ended /\ last.decode = "ok" /\ last.redelivered /\ ~last.fault)
        => /\ last.handler = "fail" => last.outcome = "NackDiscard"
           /\ last.handler = "ok" => last.outcome = "Ack"
           /\ last.outcome # "NackRequeue"

\* C4: with no broker fault, a delivery whose body does not decode ends in
\* NackDiscard, whatever its redelivered flag, and the handler is not run.
C4_DecodeFailureDiscards ==
    (Ended /\ last.decode \in {"badjson", "badutf8", "nonobject"} /\ ~last.fault)
        => last.outcome = "NackDiscard" /\ last.handler = "notrun"

\* C5: no envelope is delivered to the consumer more than twice (stated for the
\* executions in which no broker operation raised).
C5_AtMostTwoDeliveries == ~faulted => \A i \in Ids : deliveries[i] <= 2

\* C6: no delivery that entered handle_message is still unacknowledged when the
\* consumer's channel/connection is closed or the process exits (stated for the
\* executions in which no broker operation raised).
C6_NoEnvelopeAbandoned == ~faulted => abandoned = {}

\* C7: when stop() has returned, no delivery is accepted any more, no envelope is
\* left in handle_message without an outcome, and the connection is closed.
C7_StopContract ==
    pc = "sig_stopped" => /\ ~consuming
                          /\ cur = NoDelivery
                          /\ connection # "open"

SendOps == {"send_message", "send_analytics_message", "send_notification_message",
            "send_event_message"}

\* C8: a send_message call whose basic_publish fails raises to its caller, having
\* invoked basic_publish exactly once and handed nothing to the broker.
C8_PublishFailureSurfaced ==
    (pcall.op \in SendOps /\ pcall.publishFailed)
        => pcall.result = "raised" /\ pcall.publishes = 1 /\ pcall.added = 0

\* C8 witness: a publish on an open channel failed in BasicProducer.send_message.
C8_Witness ==
    /\ who = "basic" /\ pcall.op = "send_message" /\ pcall.publishFailed
    /\ chan = "open" /\ Len(wire) = 1

\* C9: once close() has returned, the connection that was opened is closed.
C9_CloseClosesConnection == pcall.op = "close" => conn # "open"

\* C10: two messages whose ids the producers generated carry different ids.
C10_UniqueMessageIds ==
    \A i, j \in 1..Len(wire) :
        (i # j /\ wire[i].generated /\ wire[j].generated)
            => wire[i].message_id # wire[j].message_id

\* C11: the broker never has more than the declared prefetch limit of deliveries
\* outstanding to the consumer; with the limit 1, while handle_message works on a
\* delivery that delivery is the only outstanding one and the delivery this
\* consumer handled before it reached a terminal outcome.
C11_PrefetchBound ==
    /\ Len(unacked) <= PrefetchCount
    /\ cur # NoDelivery => \A i \in 1..Len(unacked) : unacked[i].tag = cur.tag
    /\ (cur # NoDelivery /\ last.run = runs)
           => last.outcome \in {"Ack", "NackRequeue", "NackDiscard"}

\* C11 witness: a delivery is being handled while another envelope waits in the
\* queue, held back by the prefetch window.
C11_Witness ==
    /\ pc = "process" /\ consuming /\ connection = "open"
    /\ Len(unacked) = PrefetchCount /\ queue # <<>>

\* C12: every basic_ack / basic_nack carries the delivery tag that arrived with the
\* delivery being handled, and the broker still holds that tag as outstanding when
\* the call is issued (it is neither stale nor already acknowledged).
C12_AckCarriesOwnTag ==
    last.ops > 0 => last.acktag = last.tag /\ last.live

\* C12 witness: the second delivery on a channel was acknowledged.
C12_Witness == last.outcome = "Ack" /\ last.tag = 2 /\ last.ops = 1

\* C13: of the deliveries the broker makes of a published envelope to the consumer,
\* at most one carries redelivered = false, and once any delivery of the envelope
\* has happened exactly one did: no delivery with redelivered = true comes before it.
C13_OneFirstDelivery ==
    \A i \in Ids :
        /\ attempts[i].first <= 1
        /\ attempts[i].again => attempts[i].first = 1

\* C13 witness: an envelope was delivered with redelivered = false, requeued by the
\* broker and delivered again with redelivered = true.
C13_Witness == \E i \in Ids : attempts[i].first = 1 /\ attempts[i].again

\* C14: basic_ack is issued only for a delivery whose payload decoded and whose
\* process_message returned; the broker holds a delivery as unacknowledged for as
\* long as handle_message works on it (no automatic acknowledgment); and a delivery
\* whose handler succeeded gets basic_ack and nothing else, whatever its
\* redelivered flag (the outcome is Ack unless the basic_ack call itself raised).
C14_AckAfterHandler ==
    /\ pc \in {"decode", "process", "ack"} => Outstanding(cur.tag)
    /\ last.outcome = "Ack" => last.decode = "ok" /\ last.handler = "ok"
    /\ (Ended /\ last.handler = "ok")
           => /\ last.ops = 1
              /\ last.outcome = "Ack" \/ (last.fault /\ last.outcome = "None")

\* C14 witness: a redelivered delivery whose handler succeeded was acknowledged.
C14_Witness ==
    /\ last.outcome = "Ack" /\ last.redelivered /\ last.handler = "ok"
    /\ ~Outstanding(last.tag)

\* C15: stop() / close() of the signal handler never operate on the consumer's
\* channel while handle_message is between the start and the end of a callback
\* (decoding, processing, or about to acknowledge) on that channel.
C15_ChannelSerialized ==
    (pc = "sig_stopped" /\ channel # "none")
        => stoppedAt \notin {"decode", "process", "ack"}

\* C16: when connect() raised, it did so after a single connection attempt, main()
\* went straight to its finally block (the consumer never called start_consuming,
\* the producer never called send_messages), and once main() has returned close()
\* has run and the return value is 1.
C16_ConnectFailureFatal ==
    /\ startup.failed
          => /\ startup.connects = 1
             /\ ~startup.consumed /\ ~consuming
             /\ pc \in {"finally", "returned", "exited"}
             /\ exitCode = 1
    /\ pmain.failed
          => /\ pmain.connects = 1
             /\ pmain.sends = 0 /\ wire = <<>>
             /\ pmain.pc \in {"finally", "returned"}
             /\ pmain.exit = 1
             /\ pmain.pc = "returned" => pcall.op = "close"

\* C16 witness: both main()s have returned after connect() raised with the
\* connection already open (queue_declare failed), and close() closed it.
C16_Witness ==
    /\ startup.failed /\ pc = "returned" /\ connection = "closed"
    /\ pmain.failed /\ pmain.pc = "returned" /\ conn = "closed"

\* C17: a close() on a consumer or producer whose connection is already closed
\* raises nothing to its caller (main()'s finally block completes with the return
\* value unchanged; the producer's close() returns) and leaves the connection,
\* the channel and the broker's queue as they were.
C17_CloseIdempotent ==
    [][/\ (pc = "finally" /\ connection = "closed" /\ pc' # pc)
            => /\ pc' = "returned" /\ exitCode' = exitCode
               /\ connection' = "closed" /\ channel' = channel
               /\ queue' = queue /\ unacked' = unacked
       /\ (conn = "closed" /\ pcall'.op = "close")
            => /\ pcall'.result = "returned"
               /\ conn' = "closed" /\ chan' = chan]_vars

\* C17 witness: the signal handler closed the connection and main()'s finally
\* block called close() again; the producer's connection was closed as well.
C17_Witness ==
    /\ pc = "returned" /\ stoppedAt = "consuming" /\ connection = "closed"
    /\ exitCode = 0
    /\ pcall.op = "close" /\ conn = "closed"

\* C18: every message that send_message handed to the broker carries
\* delivery_mode = 2, a message_id that is a string (built by the producer or
\* passed by the caller) and a timestamp that is a whole number of seconds.
C18_WireProperties ==
    \A i \in 1..Len(wire) :
        /\ wire[i].delivery_mode = 2
        /\ IsString(wire[i].message_id)
        /\ wire[i].timestamp \in 0..MaxClock

\* C18 witness: a message with a defaulted id and one with the caller's id were
\* handed to the broker.
C18_Witness ==
    /\ Len(wire) = 2
    /\ wire[1].message_id.fmt \in {"msg", "topic"}
    /\ wire[2].message_id = Str("id-a")

\* What the outcome may depend on: whether the payload decoded, what the handler
\* did, and the redelivered flag.
Decided(r) == <<r.decode = "ok", r.handler, r.redelivered>>

\* C19: two handle_message invocations (here: one and the next one to end, with no
\* broker operation raising in either) that agree on (decode succeeded, handler
\* outcome, redelivered) end with the same acknowledgment outcome.
C19_OutcomeDependsOnlyOnTriple ==
    [][(/\ last.end \in {"returned", "raised"} /\ ~last.fault
        /\ last'.end \in {"returned", "raised"} /\ ~last'.fault
        /\ Decided(last) = Decided(last'))
           => last'.outcome = last.outcome]_vars

LiteralOnly(pattern) == \A i \in 1..Len(pattern) : pattern[i].kind = "literal"

\* C20: on a pattern made only of literal segments, matches returns true iff the
\* key has as many segments as the pattern and every pattern segment equals the
\* key's segment at the same position.
C20_LiteralPatternMatchesItself ==
    (mresult # "none" /\ LiteralOnly(mpattern))
        => (mresult = "true"
              <=> /\ Len(Split(mkey)) = Len(mpattern)
                  /\ \A i \in 1..Len(mpattern) : mpattern[i].seg = Split(mkey)[i])

\* C20 witness: the two-segment literal pattern a.ab matched the key "a.ab".
C20_Witness ==
    /\ mresult = "true"
    /\ mpattern = <<Lit(<<"a">>), Lit(<<"a", "b">>)>>
    /\ mkey = <<"a", ".", "a", "b">>

\* ---- fair scheduling ------------------------------------------------------

\* The consumer script is started again whenever it has exited, without end:
\* main() builds a new BasicConsumer (__init__, lines 18-23). The run number is
\* not counted.
Respawn ==
    /\ pc = "exited"
    /\ connection' = "none"
    /\ channel' = "none"
    /\ message_count' = 0
    /\ running' = TRUE
    /\ pc' = "start"
    /\ stoppedAt' = "none"
    /\ exitCode' = -1
    /\ prefetch' = 0
    /\ startup' = NoStartup
    /\ UNCHANGED <<logInfo, queue, unacked, inbox, nextTag, nextId, consuming, cur, runs,
                   last, deliveries, attempts, abandoned, faulted, failures>>
    /\ UNCHANGED <<pvars, mvars>>

\* The consumer script left alone and the broker healthy: no signal arrives, no
\* broker operation fails, and the script is started again when it has exited.
LiveNext ==
    \/ \E b \in Bodies : Publish(b)
    \/ BrokerDeliver
    \/ Connect("none")
    \/ StartConsuming
    \/ Dispatch
    \/ Decode(FALSE)
    \/ Process(FALSE)
    \/ Ack(FALSE, FALSE)
    \/ Finally(FALSE)
    \/ Exit
    \/ Respawn

\* The broker keeps delivering, and every step of the consumer script that can
\* be taken is taken; nothing obliges a producer to publish.
LiveFairness ==
    /\ WF_vars(BrokerDeliver)
    /\ WF_vars(Connect("none"))
    /\ WF_vars(StartConsuming)
    /\ WF_vars(Dispatch)
    /\ WF_vars(Decode(FALSE))
    /\ WF_vars(Process(FALSE))
    /\ WF_vars(Ack(FALSE, FALSE))
    /\ WF_vars(Finally(FALSE))
    /\ WF_vars(Exit)
    /\ WF_vars(Respawn)

LiveSpec == Init /\ [][LiveNext]_vars /\ LiveFairness

\* C23: every envelope handed to handle_message is eventually acknowledged or
\* discarded.
C23_EventuallySettled ==
    \A i \in Ids :
        (cur # NoDelivery /\ cur.id = i)
            ~> (last.id = i /\ last.outcome \in {"Ack", "NackDiscard"})

BatchInit == ProducerInit /\ who = "basic"

BatchNext ==
    \/ \E f \in ConnectFaults : PConnect(f)
    \/ \E m \in Msgs, f \in BOOLEAN : BasicSend(m, NoneId, f)
    \/ \E a, b \in Msgs, k \in 0..2, dt \in 0..1 : send_messages(<<a, b>>, k, dt)
    \/ \E r \in BOOLEAN : PClose(r)
    \/ Tick

BatchSpec == BatchInit /\ [][BatchNext]_vars

\* C25: a send_messages call hands the messages to the broker in list order, one
\* publish each, after what was published before; it returns only when the whole
\* list went out, and when the publish of message i fails it raises with messages
\* 1..i-1 published, one publish attempted for message i and none after it.
C25_BatchInOrder ==
    [][(pcall'.op = "send_messages" /\ <<wire, pcall, batch>>' # <<wire, pcall, batch>>)
          => LET k == Len(wire') - Len(wire) IN
               /\ k \in 0..Len(batch')
               /\ SubSeq(wire', 1, Len(wire)) = wire
               /\ \A i \in 1..k : wire'[Len(wire) + i].body = batch'[i]
               /\ pcall'.added = k
               /\ pcall'.result = "returned" <=> k = Len(batch')
               /\ pcall'.result = "returned" => pcall'.publishes = k
               /\ pcall'.publishFailed
                     => pcall'.result = "raised" /\ pcall'.publishes = k + 1]_vars

\* C25 witness: the publish of the second message of a batch of two different
\* messages failed; the first one is on the wire.
C25_Witness ==
    /\ pcall.op = "send_messages"
    /\ pcall.publishFailed
    /\ pcall.result = "raised"
    /\ pcall.added = 1
    /\ Len(batch) = 2 /\ batch[1] # batch[2]
    /\ wire # <<>> /\ wire[Len(wire)].body = batch[1]

\* C26: no broker operation happens before a successful connect(): while the only
\* connect() call made on a producer so far has raised, the next call on it hands
\* nothing to the broker. (A state whose last call is a connect() that raised has
\* seen no connect() return: connect() is called on an object without a
\* connection, and the calls before it left none.)
C26_NoPublishBeforeConnect ==
    [][(pcall.op = "connect" /\ pcall.result = "raised") => wire' = wire]_vars

\* ---- the message counter --------------------------------------------------

\* Enough envelopes for message_count to reach the simulated fault.
CounterIds == 1..FaultEvery
CounterBodies == {"plain", "backup", "badjson"}

\* A producer's basic_publish, up to FaultEvery envelopes.
CounterPublish(b) ==
    /\ nextId <= FaultEvery
    /\ queue' = Append(queue, [id |-> nextId, body |-> b, redelivered |-> FALSE])
    /\ nextId' = nextId + 1
    /\ UNCHANGED <<logInfo, startup, unacked, inbox, prefetch, nextTag, consuming, connection,
                   channel, message_count, running, pc, cur, stoppedAt, exitCode,
                   runs, last, deliveries, attempts, abandoned, faulted, failures>>
    /\ UNCHANGED <<pvars, mvars>>

\* A new BasicConsumer with LOG_LEVEL=WARNING and an empty queue.
CounterInit ==
    /\ logInfo = FALSE
    /\ queue = <<>> /\ unacked = <<>> /\ inbox = <<>>
    /\ prefetch = 0 /\ nextTag = 1 /\ nextId = 1
    /\ consuming = FALSE /\ connection = "none" /\ channel = "none"
    /\ message_count = 0 /\ running = TRUE
    /\ pc = "start" /\ cur = NoDelivery /\ stoppedAt = "none" /\ exitCode = -1
    /\ runs = 1 /\ last = NoRec
    /\ deliveries = [i \in CounterIds |-> 0]
    /\ attempts = [i \in CounterIds |-> [first |-> 0, again |-> FALSE]]
    /\ failures = [i \in CounterIds |-> 0]
    /\ startup = NoStartup /\ abandoned = {} /\ faulted = FALSE
    /\ PStart
    /\ who = "basic"
    /\ hashOf = [m \in Msgs |-> IF m = "m1" THEN 7 ELSE 8]
    /\ MIdle

\* The consumer script with a healthy broker and no signal, started again after
\* it has exited.
CounterNext ==
    \/ \E b \in CounterBodies : CounterPublish(b)
    \/ BrokerDeliver
    \/ Connect("none")
    \/ StartConsuming
    \/ Dispatch
    \/ Decode(FALSE)
    \/ Process(FALSE)
    \/ Ack(FALSE, FALSE)
    \/ Finally(FALSE)
    \/ Exit
    \/ Restart

CounterSpec == CounterInit /\ [][CounterNext]_vars

\* The simulated fault of process_message ended invocation r.
SimulatedFault(r) == r.body = "backup" /\ r.decode = "ok" /\ r.handler = "fail"

\* C27: while its connection is open, the consumer's message_count is the number
\* of deliveries of this channel that handle_message was invoked for (delivery
\* tags handed out, less the deliveries still waiting), decode failures included,
\* and within a run it never decreases; the simulated fault ends an invocation
\* only at a count that is a multiple of five, consecutive invocations of a run
\* have consecutive counts, and when the invocation after a simulated fault is for
\* the same envelope, redelivered, it ends with Ack.
C27_CounterAndFault ==
    [][/\ connection' = "open" => message_count' = (nextTag' - 1) - Len(inbox')
       /\ runs' = runs => message_count' >= message_count
       /\ last' # last =>
             /\ last'.count = message_count'
             /\ (last.run = last'.run) => last'.count = last.count + 1
             /\ SimulatedFault(last') => last'.count % FaultEvery = 0
             /\ (SimulatedFault(last) /\ last.run = last'.run) => ~SimulatedFault(last')
             /\ (SimulatedFault(last) /\ last'.id = last.id /\ last'.redelivered)
                   => last'.outcome = "Ack"]_vars

\* C27 witness: the fifth invocation of a run failed through the simulated fault,
\* and the envelope, redelivered as the next delivery, was acknowledged.
C27_Witness ==
    /\ last.outcome = "Ack"
    /\ last.redelivered
    /\ last.body = "backup"
    /\ failures[last.id] = 1
    /\ last.id = FaultEvery

\* The number of key segments the first n matchers take under the assignment c.
RECURSIVE Taken(_, _)
Taken(c, n) == IF n = 0 THEN 0 ELSE Taken(c, n - 1) + c[n]

\* The stated semantics, without an algorithm: c gives every matcher of pattern p
\* the number of segments of k it consumes, one after the other; a literal
\* consumes one segment equal to it, '*' one segment, '#' any number, and
\* nothing of the key is left over.
Consumes(p, k, c) ==
    /\ Taken(c, Len(p)) = Len(k)
    /\ \A i \in 1..Len(p) :
          CASE p[i].kind = "literal" -> c[i] = 1 /\ k[Taken(c, i - 1) + 1] = p[i].seg
            [] p[i].kind = "star" -> c[i] = 1
            [] p[i].kind = "hash" -> TRUE

Str2(x, y) == <<x, ".", y>>

\* C21: matches returns true iff the key's segments can be shared out among the
\* pattern's matchers in order, one to every literal (equal to it) and every '*',
\* zero or more to every '#', with pattern and key both fully consumed; and the
\* five stated examples have the stated results.
C21_WildcardSemantics ==
    mresult # "none" =>
        /\ mresult = "true"
              <=> \E c \in [1..Len(mpattern) -> 0..Len(Split(mkey))] :
                      Consumes(mpattern, Split(mkey), c)
        /\ (mpattern = <<Star, Star>> /\ mkey = Str2("a", "b")) => mresult = "true"
        /\ (mpattern = <<Star, Star>> /\ mkey = <<"a", ".", "b", ".", "c">>)
              => mresult = "false"
        /\ (mpattern = <<Hash>> /\ mkey = <<"a", ".", "b", ".", "c">>)
              => mresult = "true"
        /\ (mpattern = <<Lit(<<"a">>), Hash>> /\ mkey = <<"a">>) => mresult = "true"
        /\ (mpattern = <<Lit(<<"a">>), Hash>> /\ mkey = Str2("b", "c"))
              => mresult = "false"

\* C21 witness: '#' followed by the literal b matched "a.b": '#' had to stop after
\* one segment and leave the last one to the literal.
C21_Witness ==
    /\ mresult = "true"
    /\ mpattern = <<Hash, Lit(<<"b">>)>>
    /\ mkey = Str2("a", "b")

\* C22: the empty key matches no pattern that contains a literal segment, and
\* the pattern made of a single '#' matches every non-empty key.
C22_EmptyKeyAndHash ==
    mresult # "none" =>
        /\ (mkey = <<>> /\ \E i \in 1..Len(mpattern) : mpattern[i].kind = "literal")
              => mresult = "false"
        /\ (mkey # <<>> /\ mpattern = <<Hash>>) => mresult = "true"

\* C22 witness: matches was called with the empty key and the pattern #.a,
\* and returned false.
C22_Witness ==
    /\ mresult = "false"
    /\ mkey = <<>>
    /\ mpattern = <<Hash, Lit(<<"a">>)>>

====
